---- MODULE Spec2Model ----
(***************************************************************************)
(* Juniper configuration backup job (src/src/backup.py).                   *)
(*                                                                         *)
(* One run of run_backup_job: the inventory is loaded, one backup_router   *)
(* task per inventory entry is submitted to a thread pool, each task       *)
(* opens a device session, captures the configuration into a timestamped   *)
(* file, commits it and trims old files under GIT_LOCK, and the main       *)
(* thread folds the results into success_details / failed_hosts and sends  *)
(* one summary.                                                            *)
(***************************************************************************)
EXTENDS Integers, Sequences, FiniteSets, TLC

\* ------------------------------------------------------------------ bounds
MaxDevices == 2        \* inventory entries of a job, in Spec
PoolDevices == 11      \* inventory entries of a job, in SpecPool
MaxCap == 2            \* largest MAX_BACKUPS tried
MaxPre == 2            \* snapshot files left on disk by earlier jobs
MaxTicks == 1          \* seconds the wall clock advances during the job
MaxLen == 2            \* characters of a reported host-name, in SpecSanitize

\* --------------------------------------------------------------- constants
stop_after_attempt == 3     \* @retry(stop=stop_after_attempt(3))
POOL_MAX == 10              \* min(len(routers), 10)

\* ------------------------------------------------------------ plain helpers
Min(a, b) == IF a <= b THEN a ELSE b

IsPrefix(p, s) == Len(p) <= Len(s) /\ SubSeq(s, 1, Len(p)) = p

\* ------------------------------------------------------------- identities
\* the characters str.replace is applied to at line 280, after the ";"
Unsafe == {"/", "\\", ":", "*", "?", "\"", "<", ">", "|"}

RECURSIVE SanitizeKeepPipe(_)
\* a chain without its last call, .replace("|", "_")
SanitizeKeepPipe(s) ==
    IF s = <<>> THEN <<>>
    ELSE LET c == Head(s)
             rest == SanitizeKeepPipe(Tail(s))
         IN  IF c = ";" THEN rest
             ELSE IF c \in Unsafe \ {"|"} THEN <<"_">> \o rest
             ELSE <<c>> \o rest

RECURSIVE SanitizeSlashToBackslash(_)
\* a chain whose second call is .replace("/", "\\")
SanitizeSlashToBackslash(s) ==
    IF s = <<>> THEN <<>>
    ELSE LET c == Head(s)
             rest == SanitizeSlashToBackslash(Tail(s))
         IN  IF c = ";" THEN rest
             ELSE IF c = "/" THEN <<"\\">> \o rest
             ELSE IF c \in Unsafe THEN <<"_">> \o rest
             ELSE <<c>> \o rest

RECURSIVE Sanitize(_)
\* line 280: .replace(";", "") drops every ";", each other replace puts "_"
Sanitize(s) ==
    IF s = <<>> THEN <<>>
    ELSE LET c == Head(s)
             rest == Sanitize(Tail(s))
         IN  IF c = ";" THEN rest
             ELSE IF c \in Unsafe THEN <<"_">> \o rest
             ELSE <<c>> \o rest

\* host of inventory entry i
Host(i) == <<"h", ToString(i)>>

\* last word of the device's answer to "show configuration system host-name";
\* <<>> stands for an empty answer or a failed query
Replies == { <<>>, <<"r", ";">>, <<"r", "/", "x", ";">> }

\* lines 273-277: the reported name, or the inventory host when there is none
ResolveHostname(reply, host) == IF reply # <<>> THEN reply ELSE host

\* --------------------------------------------------------------- inventory
\* what the device does to a task that reaches it
Fates == {"ok", "NetmikoTimeoutException", "ConnectionError", "TimeoutError",
          "NetmikoAuthenticationException", "capture", "write"}

\* exception raised by ConnectHandler(**device) for a device of this fate
ConnectExc(fate) ==
    IF fate \in {"NetmikoTimeoutException", "ConnectionError", "TimeoutError",
                 "NetmikoAuthenticationException"}
    THEN fate ELSE "none"

\* retry=retry_if_exception_type((NetmikoTimeoutException, ConnectionError, TimeoutError))
RetryTypes == {"NetmikoTimeoutException", "ConnectionError", "TimeoutError"}

\* one inventory entry as backup_router sees it: username / password say
\* whether the entry or the environment supplies a non-empty value
Device(h, u, p, f, r) ==
    [host |-> h, username |-> u, password |-> p, fate |-> f, reply |-> r]

\* the entries tried for position i; fields a fate never reads are fixed
DevicesAt(i) ==
    { Device(Host(i), TRUE, TRUE, f, r) : f \in {"ok", "write"}, r \in Replies }
    \cup { Device(Host(i), TRUE, TRUE, f, <<"r", ";">>) :
             f \in Fates \ {"ok", "write"} }
    \cup { Device(Host(i), up[1], up[2], "ok", <<"r", ";">>) :
             up \in {<<FALSE, TRUE>>, <<TRUE, FALSE>>, <<FALSE, FALSE>>} }

Inventories(n) ==
    { inv \in UNION { [1..k -> UNION {DevicesAt(i) : i \in 1..k}] : k \in 0..n } :
        \A i \in DOMAIN inv : inv[i] \in DevicesAt(i) }

\* ------------------------------------------------------------------- files
\* a snapshot file {id}_{ts}.conf with its modification time
File(id, ts, mtime, complete) ==
    [id |-> id, ts |-> ts, mtime |-> mtime, complete |-> complete]

\* files left by earlier jobs: k files of identity "r", written in capture order
PreExisting(k) == { File(<<"r">>, j, j, TRUE) : j \in 1..k }

StartClock == MaxPre + 1

\* line 160-161: glob of {hostname}_*.conf
Matches(hostname, f) == IsPrefix(hostname \o <<"_">>, f.id \o <<"_">>)

RECURSIVE SortByMtime(_)
\* line 164: files.sort(key=os.path.getmtime)
SortByMtime(S) ==
    IF S = {} THEN <<>>
    ELSE LET f == CHOOSE x \in S : \A y \in S : x.mtime <= y.mtime
         IN  <<f>> \o SortByMtime(S \ {f})

\* open(filepath, "w"): a file of that name is replaced
WriteFile(d, f) == { g \in d : ~(g.id = f.id /\ g.ts = f.ts) } \cup {f}

\* ------------------------------------------------------------------- state
VARIABLES
    routers,          \* what load_inventory returned for this job
    MAX_BACKUPS,      \* int(os.getenv("MAX_BACKUPS", "10"))
    jpc,              \* where run_backup_job is
    pc,               \* where each backup_router task is
    attempt,          \* calls of backup_router made by the retry wrapper, per task
    opens,            \* ConnectHandler calls made, per task
    sessions,         \* tasks whose device session is open
    ret,              \* what each task's future holds
    device_hostname,  \* backup_router local, per task
    timestamp,        \* backup_router local, per task
    GIT_LOCK,         \* task holding the lock, 0 when free
    disk,             \* snapshot files in BACKUP_DIR
    now,              \* wall clock, in seconds
    wseq,             \* next modification time the file system hands out
    committed,        \* file names in the git history
    files_to_delete,  \* cleanup_old_backups local, per task
    cleanup,          \* per task: what its cleanup listed, selected, removed
    errors,           \* per task: the logger.error calls of its serialized section
    success_details,  \* run_backup_job local
    failed_hosts,     \* run_backup_job local
    notifications,    \* calls of send_telegram_notification
    last_run          \* writes of /tmp/last_run

vars == <<routers, MAX_BACKUPS, jpc, pc, attempt, opens, sessions, ret,
          device_hostname, timestamp, GIT_LOCK, disk, now, wseq, committed,
          files_to_delete, cleanup, errors, success_details, failed_hosts,
          notifications, last_run>>

Tasks == DOMAIN routers

NoRet == [state |-> "pending", success |-> FALSE, error |-> "none",
          hostname |-> <<>>, timestamp |-> 0]

NoCleanup == [ran |-> FALSE, listed |-> {}, selected |-> {}, removed |-> {},
              failed |-> {}]

InitWith(inv, cap, pre) ==
    /\ routers = inv
    /\ MAX_BACKUPS = cap
    /\ jpc = "start"
    /\ pc = [t \in DOMAIN inv |-> "queued"]
    /\ attempt = [t \in DOMAIN inv |-> 0]
    /\ opens = [t \in DOMAIN inv |-> 0]
    /\ sessions = {}
    /\ ret = [t \in DOMAIN inv |-> NoRet]
    /\ device_hostname = [t \in DOMAIN inv |-> <<>>]
    /\ timestamp = [t \in DOMAIN inv |-> 0]
    /\ GIT_LOCK = 0
    /\ disk = PreExisting(pre)
    /\ now = StartClock
    /\ wseq = StartClock
    /\ committed = {}
    /\ files_to_delete = [t \in DOMAIN inv |-> <<>>]
    /\ cleanup = [t \in DOMAIN inv |-> NoCleanup]
    /\ errors = [t \in DOMAIN inv |-> {}]
    /\ success_details = <<>>
    /\ failed_hosts = <<>>
    /\ notifications = 0
    /\ last_run = 0

Init ==
    \E inv \in Inventories(MaxDevices), cap \in 1..MaxCap, pre \in 0..MaxPre :
        InitWith(inv, cap, pre)

\* --------------------------------------------------------------- job start
\* a pool as large as the inventory
max_workers_unbounded(n) == n

\* line 374
max_workers(n) == Min(n, POOL_MAX)

\* a job that goes on to the executor whatever was loaded
AfterLoadNoReturn(inv) == "running"

\* lines 361-365: if not routers: return
AfterLoad(inv) == IF Len(inv) = 0 THEN "done" ELSE "running"

\* lines 339-378: liveness marker, load_inventory, early return on an empty
\* inventory, otherwise every entry is submitted to the executor
JobStart ==
    /\ jpc = "start"
    /\ last_run' = last_run + 1
    /\ jpc' = AfterLoad(routers)
    /\ UNCHANGED <<routers, MAX_BACKUPS, pc, attempt, opens, sessions, ret,
                   device_hostname, timestamp, GIT_LOCK, disk, now, wseq,
                   committed, files_to_delete, cleanup, errors,
                   success_details, failed_hosts, notifications>>

\* datetime.datetime.now() as get_timestamp will read it: the clock is
\* observed only by a task that is about to capture
Tick ==
    /\ jpc = "running"
    /\ \E t \in Tasks : pc[t] = "connected"
    /\ now < StartClock + MaxTicks
    /\ now' = now + 1
    /\ UNCHANGED <<routers, MAX_BACKUPS, jpc, pc, attempt, opens, sessions, ret,
                   device_hostname, timestamp, GIT_LOCK, disk, wseq, committed,
                   files_to_delete, cleanup, errors, success_details,
                   failed_hosts, notifications, last_run>>

\* ------------------------------------------------------- retry and handlers
\* lines 321-328: the message of the handler that catches e
Handler(e) ==
    IF e \in {"NetmikoTimeoutException", "NetmikoAuthenticationException"}
    THEN "Failed to connect" ELSE "An error occurred"

\* lines 268-328: the exception that leaves backup_router when e is raised
\* inside its try block: "except Exception" catches every one of them
Escaped(e) == "none"

\* the wrapper with the handlers of lines 321-328 re-raising and a ceiling
\* counted two calls late
RetryAgainPastCeiling(n, e) ==
    /\ e \in RetryTypes
    /\ n < stop_after_attempt + 2

\* the wrapper retrying on any failed attempt, whatever its class
RetryAgainAnyFailure(n, e) ==
    /\ e # "none"
    /\ n < stop_after_attempt

\* lines 228-237: whether the retry wrapper calls backup_router again after
\* call number n ended with e raised inside its try block
RetryAgain(n, e) ==
    /\ Escaped(e) \in RetryTypes
    /\ n < stop_after_attempt

\* the future of a task whose call number n ended with exception e
Failed(n, e) ==
    IF Escaped(e) # "none"
    THEN [NoRet EXCEPT !.state = "raised", !.error = Escaped(e)]
    ELSE [NoRet EXCEPT !.state = "returned", !.error = Handler(e)]

\* worker threads that are running a task
Busy == { t \in Tasks : pc[t] \notin {"queued", "returned", "collected"} }

\* ------------------------------------------------------------ backup_router
\* a validation that looks at the host alone
MissingConfigurationHostOnly(dev) == dev.host = <<>>

\* line 253: not host or not username or not password
MissingConfiguration(dev) ==
    dev.host = <<>> \/ ~dev.username \/ ~dev.password

\* lines 238-270: a worker takes the task (or the retry wrapper calls again),
\* the descriptor is validated and ConnectHandler is entered
Start(t) ==
    /\ jpc = "running"
    /\ pc[t] \in {"queued", "retry"}
    /\ pc[t] = "queued" => Cardinality(Busy) < max_workers(Len(routers))
    /\ attempt' = [attempt EXCEPT ![t] = @ + 1]
    /\ LET dev == routers[t]
           e == ConnectExc(dev.fate)
           n == attempt[t] + 1
       IN  IF MissingConfiguration(dev)
           THEN /\ ret' = [ret EXCEPT ![t] = [NoRet EXCEPT
                              !.state = "returned",
                              !.error = "Missing configuration"]]
                /\ pc' = [pc EXCEPT ![t] = "returned"]
                /\ UNCHANGED <<opens, sessions>>
           ELSE /\ opens' = [opens EXCEPT ![t] = @ + 1]
                /\ IF e # "none"
                   THEN /\ pc' = [pc EXCEPT ![t] =
                                 IF RetryAgain(n, e) THEN "retry" ELSE "returned"]
                        /\ ret' = [ret EXCEPT ![t] =
                                 IF RetryAgain(n, e) THEN @ ELSE Failed(n, e)]
                        /\ UNCHANGED sessions
                   ELSE /\ sessions' = sessions \cup {t}
                        /\ pc' = [pc EXCEPT ![t] = "connected"]
                        /\ UNCHANGED ret
    /\ UNCHANGED <<routers, MAX_BACKUPS, jpc, device_hostname, timestamp,
                   GIT_LOCK, disk, now, wseq, committed, files_to_delete,
                   cleanup, errors, success_details, failed_hosts,
                   notifications, last_run>>

\* lines 272-288: identity query, sanitization, configuration read, timestamp
Capture(t) ==
    /\ pc[t] = "connected"
    /\ LET dev == routers[t]
           n == attempt[t]
       IN  IF dev.fate = "capture"
           THEN /\ sessions' = sessions \ {t}
                /\ pc' = [pc EXCEPT ![t] =
                         IF RetryAgain(n, "ReadTimeout") THEN "retry" ELSE "returned"]
                /\ ret' = [ret EXCEPT ![t] =
                         IF RetryAgain(n, "ReadTimeout") THEN @
                         ELSE Failed(n, "ReadTimeout")]
                /\ UNCHANGED <<device_hostname, timestamp>>
           ELSE /\ device_hostname' = [device_hostname EXCEPT ![t] =
                         Sanitize(ResolveHostname(dev.reply, dev.host))]
                /\ timestamp' = [timestamp EXCEPT ![t] = now]
                /\ pc' = [pc EXCEPT ![t] = "write"]
                /\ UNCHANGED <<sessions, ret>>
    /\ UNCHANGED <<routers, MAX_BACKUPS, jpc, attempt, opens, GIT_LOCK, disk,
                   now, wseq, committed, files_to_delete, cleanup, errors,
                   success_details, failed_hosts, notifications, last_run>>

\* lines 290-301: the file is opened for writing and the configuration
\* written; a write that errors leaves the file behind, incomplete
Write(t) ==
    /\ pc[t] = "write"
    /\ LET dev == routers[t]
           n == attempt[t]
           whole == dev.fate # "write"
       IN  /\ disk' = WriteFile(disk,
                        File(device_hostname[t], timestamp[t], wseq, whole))
           /\ wseq' = wseq + 1
           /\ IF whole
              THEN /\ pc' = [pc EXCEPT ![t] = "lock"]
                   /\ UNCHANGED <<sessions, ret>>
              ELSE /\ sessions' = sessions \ {t}
                   /\ pc' = [pc EXCEPT ![t] =
                            IF RetryAgain(n, "OSError") THEN "retry" ELSE "returned"]
                   /\ ret' = [ret EXCEPT ![t] =
                            IF RetryAgain(n, "OSError") THEN @
                            ELSE Failed(n, "OSError")]
    /\ UNCHANGED <<routers, MAX_BACKUPS, jpc, attempt, opens, device_hostname,
                   timestamp, GIT_LOCK, now, committed, files_to_delete,
                   cleanup, errors, success_details, failed_hosts,
                   notifications, last_run>>

\* ------------------------------------------------------- serialized section
\* an acquire that never blocks
LockIgnored == TRUE

\* a lock that is never handed to a waiting thread
LockStuck == FALSE

\* threading.Lock: acquire blocks while another thread holds it
LockFree == GIT_LOCK = 0

\* line 304: with GIT_LOCK
Acquire(t) ==
    /\ pc[t] = "lock"
    /\ LockFree
    /\ GIT_LOCK' = t
    /\ pc' = [pc EXCEPT ![t] = "commit"]
    /\ UNCHANGED <<routers, MAX_BACKUPS, jpc, attempt, opens, sessions, ret,
                   device_hostname, timestamp, disk, now, wseq, committed,
                   files_to_delete, cleanup, errors, success_details,
                   failed_hosts, notifications, last_run>>

\* lines 146-154: commit_to_git; a failure (repo is None, git error) is logged
Commit(t) ==
    /\ pc[t] = "commit"
    /\ \E ok \in BOOLEAN :
         IF ok
         THEN /\ committed' = committed \cup
                     {[id |-> device_hostname[t], ts |-> timestamp[t]]}
              /\ UNCHANGED errors
         ELSE /\ errors' = [errors EXCEPT ![t] = @ \cup {"Git commit failed"}]
              /\ UNCHANGED committed
    /\ pc' = [pc EXCEPT ![t] = "cleanup"]
    /\ UNCHANGED <<routers, MAX_BACKUPS, jpc, attempt, opens, sessions, ret,
                   device_hostname, timestamp, GIT_LOCK, disk, now, wseq,
                   files_to_delete, cleanup, success_details, failed_hosts,
                   notifications, last_run>>

\* the slice taken one element short: files[:-(MAX_BACKUPS + 1)]
FilesToDeleteOneShort(files, cap) ==
    IF Len(files) > cap
    THEN SubSeq(files, 1, Len(files) - cap - 1)
    ELSE <<>>

\* lines 166-167: files[:-MAX_BACKUPS] when len(files) > MAX_BACKUPS
FilesToDelete(files, cap) ==
    IF Len(files) > cap
    THEN SubSeq(files, 1,
                IF cap > 0 THEN Len(files) - cap
                ELSE IF cap = 0 THEN 0
                ELSE Min(0 - cap, Len(files)))
    ELSE <<>>

Range(q) == { q[i] : i \in DOMAIN q }

\* lines 159-167: the files of the pattern are listed and sorted, the ones to
\* delete are selected
CleanupList(t) ==
    /\ pc[t] = "cleanup"
    /\ LET listed == { f \in disk : Matches(device_hostname[t], f) }
           files == SortByMtime(listed)
           del == FilesToDelete(files, MAX_BACKUPS)
       IN  /\ files_to_delete' = [files_to_delete EXCEPT ![t] = del]
           /\ cleanup' = [cleanup EXCEPT ![t] =
                  [ran |-> TRUE, listed |-> listed, selected |-> Range(del),
                   removed |-> {}, failed |-> {}]]
           /\ pc' = [pc EXCEPT ![t] = IF del = <<>> THEN "release" ELSE "delete"]
    /\ UNCHANGED <<routers, MAX_BACKUPS, jpc, attempt, opens, sessions, ret,
                   device_hostname, timestamp, GIT_LOCK, disk, now, wseq,
                   committed, errors, success_details, failed_hosts,
                   notifications, last_run>>

\* the files of d that carry the name of f
Named(d, f) == { g \in d : g.id = f.id /\ g.ts = f.ts }

\* lines 168-172: os.remove of the next selected file; an error leaves the
\* loop for the handler of line 171, which ends the cleanup
CleanupDelete(t) ==
    /\ pc[t] = "delete"
    /\ LET f == Head(files_to_delete[t])
           rest == Tail(files_to_delete[t])
       IN  \E ok \in {b \in BOOLEAN : b => Named(disk, f) # {}} :
             IF ok
             THEN /\ disk' = disk \ Named(disk, f)
                  /\ files_to_delete' = [files_to_delete EXCEPT ![t] = rest]
                  /\ cleanup' = [cleanup EXCEPT ![t].removed = @ \cup {f}]
                  /\ pc' = [pc EXCEPT ![t] =
                           IF rest = <<>> THEN "release" ELSE "delete"]
                  /\ UNCHANGED errors
             ELSE /\ cleanup' = [cleanup EXCEPT ![t].failed = @ \cup {f}]
                  /\ errors' = [errors EXCEPT ![t] = @ \cup {"Cleanup failed"}]
                  /\ pc' = [pc EXCEPT ![t] = "release"]
                  /\ UNCHANGED <<disk, files_to_delete>>
    /\ UNCHANGED <<routers, MAX_BACKUPS, jpc, attempt, opens, sessions, ret,
                   device_hostname, timestamp, GIT_LOCK, now, wseq, committed,
                   success_details, failed_hosts, notifications, last_run>>

\* lines 309-319: the with blocks end (lock released, session closed) and the
\* task returns its details
Release(t) ==
    /\ pc[t] = "release"
    /\ GIT_LOCK' = 0
    /\ sessions' = sessions \ {t}
    /\ ret' = [ret EXCEPT ![t] = [NoRet EXCEPT
                  !.state = "returned", !.success = TRUE,
                  !.hostname = device_hostname[t],
                  !.timestamp = timestamp[t]]]
    /\ pc' = [pc EXCEPT ![t] = "returned"]
    /\ UNCHANGED <<routers, MAX_BACKUPS, jpc, attempt, opens, device_hostname,
                   timestamp, disk, now, wseq, committed, files_to_delete,
                   cleanup, errors, success_details, failed_hosts,
                   notifications, last_run>>

\* ----------------------------------------------------------- run_backup_job
\* a fold that files successes only
FoldSuccessOnly(lists, host, r) ==
    IF r.state # "raised" /\ r.success
    THEN [lists EXCEPT !.success_details = Append(@,
              [hostname |-> r.hostname, ip |-> host, timestamp |-> r.timestamp])]
    ELSE lists

\* lines 381-389: one future's result filed into the two lists
Fold(lists, host, r) ==
    IF r.state = "raised"
    THEN [lists EXCEPT !.failed_hosts = Append(@,
              [ip |-> host, error |-> "Thread exception"])]
    ELSE IF r.success
    THEN [lists EXCEPT !.success_details = Append(@,
              [hostname |-> r.hostname, ip |-> host, timestamp |-> r.timestamp])]
    ELSE [lists EXCEPT !.failed_hosts = Append(@,
              [ip |-> host, error |-> r.error])]

\* lines 380-389: the main thread takes a finished future and files its result
Collect(t) ==
    /\ jpc = "running"
    /\ pc[t] = "returned"
    /\ LET lists == Fold([success_details |-> success_details,
                          failed_hosts |-> failed_hosts],
                         routers[t].host, ret[t])
       IN  /\ success_details' = lists.success_details
           /\ failed_hosts' = lists.failed_hosts
    /\ pc' = [pc EXCEPT ![t] = "collected"]
    /\ UNCHANGED <<routers, MAX_BACKUPS, jpc, attempt, opens, sessions, ret,
                   device_hostname, timestamp, GIT_LOCK, disk, now, wseq,
                   committed, files_to_delete, cleanup, errors, notifications,
                   last_run>>

\* a summary sent only when some device succeeded
ShouldNotifyOnSuccess(failed, succeeded) == succeeded # <<>>

\* line 395
ShouldNotify(failed, succeeded) == failed # <<>> \/ succeeded # <<>>

\* lines 376-444: the executor block ends when every future was taken; the
\* summary is built and handed to send_telegram_notification
Summarize ==
    /\ jpc = "running"
    /\ \A t \in Tasks : pc[t] = "collected"
    /\ notifications' = IF ShouldNotify(failed_hosts, success_details)
                        THEN notifications + 1 ELSE notifications
    /\ jpc' = "summarized"
    /\ UNCHANGED <<routers, MAX_BACKUPS, pc, attempt, opens, sessions, ret,
                   device_hostname, timestamp, GIT_LOCK, disk, now, wseq,
                   committed, files_to_delete, cleanup, errors,
                   success_details, failed_hosts, last_run>>

\* lines 446-451: liveness marker at the end of the job
Finish ==
    /\ jpc = "summarized"
    /\ last_run' = last_run + 1
    /\ jpc' = "done"
    /\ UNCHANGED <<routers, MAX_BACKUPS, pc, attempt, opens, sessions, ret,
                   device_hostname, timestamp, GIT_LOCK, disk, now, wseq,
                   committed, files_to_delete, cleanup, errors,
                   success_details, failed_hosts, notifications>>

Next ==
    \/ JobStart
    \/ Tick
    \/ \E t \in Tasks : Start(t)
    \/ \E t \in Tasks : Capture(t)
    \/ \E t \in Tasks : Write(t)
    \/ \E t \in Tasks : Acquire(t)
    \/ \E t \in Tasks : Commit(t)
    \/ \E t \in Tasks : CleanupList(t)
    \/ \E t \in Tasks : CleanupDelete(t)
    \/ \E t \in Tasks : Release(t)
    \/ \E t \in Tasks : Collect(t)
    \/ Summarize
    \/ Finish

Spec == Init /\ [][Next]_vars

\* The same job under fair scheduling: the main thread and the executor's
\* worker threads keep running, every netmiko, file and git call returns or
\* raises, and a released lock is handed to a waiting thread, so a step that
\* can be taken is eventually taken.
SpecFair == Init /\ [][Next]_vars /\ WF_vars(Next)

\* ------------------------------------------------------ pool specification
\* A job over PoolDevices entries of one address whose devices accept the
\* session and then fail the configuration read.  The entries are alike, so
\* every schedule is a renaming of one that starts them in submission order,
\* the order in which the executor's queue hands them to its workers.
InitPool ==
    InitWith([i \in 1..PoolDevices |->
                 Device(Host(1), TRUE, TRUE, "capture", <<"r", ";">>)], 1, 0)

\* line 378: work items leave the executor's queue in submission order
StartInOrder(t) ==
    /\ \A u \in Tasks : u < t => pc[u] # "queued"
    /\ Start(t)

NextPool ==
    \/ JobStart
    \/ \E t \in Tasks : StartInOrder(t)
    \/ \E t \in Tasks : Capture(t)
    \/ \E t \in Tasks : Collect(t)
    \/ Summarize
    \/ Finish

SpecPool == InitPool /\ [][NextPool]_vars

\* ----------------------------------------------- sanitization specification
\* A job over one device that reports any name of up to MaxLen characters,
\* followed up to the point where the name has been sanitized.
Chars == Unsafe \cup {";", "a", "_"}

Names(n) == UNION { [1..k -> Chars] : k \in 0..n }

InitSanitize ==
    \E s \in Names(MaxLen) :
        InitWith(<<Device(Host(1), TRUE, TRUE, "ok", s)>>, 1, 0)

NextSanitize ==
    \/ JobStart
    \/ \E t \in Tasks : Start(t)
    \/ \E t \in Tasks : Capture(t)

SpecSanitize == InitSanitize /\ [][NextSanitize]_vars

\* ================================================================== claims
Settled == jpc \in {"summarized", "done"} /\ Len(routers) > 0

Returned(t) == pc[t] \in {"returned", "collected"}

Valid(dev) == dev.host # <<>> /\ dev.username /\ dev.password

InList(list, host) == { i \in DOMAIN list : list[i].ip = host }

\* C1: once every task of a job over a non-empty inventory has been taken by
\* the main thread, the two lists hold as many entries as the inventory, and
\* every inventory entry is in exactly one of them, once.
C1_EveryResultFiled ==
    Settled =>
        /\ Len(success_details) + Len(failed_hosts) = Len(routers)
        /\ \A t \in Tasks :
             Cardinality(InList(success_details, routers[t].host))
               + Cardinality(InList(failed_hosts, routers[t].host)) = 1

C1_Witness ==
    /\ Settled
    /\ Len(routers) = MaxDevices
    /\ success_details # <<>>
    /\ failed_hosts # <<>>

\* C2: a device whose connection fails with a transient failure is recorded
\* as failed only after its third attempt: when its task has returned, its
\* session was opened stop_after_attempt times.
C2_TransientRetriedToCeiling ==
    \A t \in Tasks :
        (Valid(routers[t]) /\ routers[t].fate \in RetryTypes /\ Returned(t))
            => opens[t] = stop_after_attempt

\* C3: no device has its session opened more than stop_after_attempt times in
\* a job, and a device that failed is in the failure list once taken.
C3_AttemptsWithinCeiling ==
    \A t \in Tasks :
        /\ opens[t] <= stop_after_attempt
        /\ attempt[t] <= stop_after_attempt
        /\ (pc[t] = "collected" /\ routers[t].fate # "ok")
              => InList(failed_hosts, routers[t].host) # {}

C3_Witness ==
    \E t \in Tasks :
        /\ routers[t].fate \in RetryTypes
        /\ pc[t] = "collected"
        /\ opens[t] >= 1
        /\ InList(failed_hosts, routers[t].host) # {}

\* C4: a device that rejects the authentication has its session opened
\* exactly once: its task is never waiting for a retry, and it has returned a
\* failure as soon as that one attempt ended.
C4_AuthFailureOnce ==
    \A t \in Tasks :
        (Valid(routers[t]) /\ routers[t].fate = "NetmikoAuthenticationException")
            => /\ opens[t] <= 1
               /\ pc[t] # "retry"
               /\ opens[t] = 1 =>
                     /\ Returned(t)
                     /\ ret[t].state = "returned"
                     /\ ~ret[t].success
               /\ pc[t] = "collected" =>
                     InList(failed_hosts, routers[t].host) # {}

C4_Witness ==
    \E t \in Tasks :
        /\ routers[t].fate = "NetmikoAuthenticationException"
        /\ pc[t] = "collected"
        /\ opens[t] = 1
        /\ InList(failed_hosts, routers[t].host) # {}

InSection(t) == pc[t] \in {"commit", "cleanup", "delete", "release"}

\* C5: at most one task is between its commit and the end of its cleanup, and
\* the lock is held by exactly that task: no task outside the section holds
\* it, whatever errors its commit or cleanup logged.
C5_SerializedSection ==
    /\ Cardinality({ t \in Tasks : InSection(t) }) <= 1
    /\ \A t \in Tasks : InSection(t) <=> GIT_LOCK = t
    /\ GIT_LOCK # 0 => GIT_LOCK \in Tasks

C5_Witness ==
    \E t, u \in Tasks :
        /\ errors[t] = {"Git commit failed", "Cleanup failed"}
        /\ Returned(t)
        /\ InSection(u)
        /\ GIT_LOCK = u

\* the files the pattern of task t's cleanup matches now
OnDiskMatching(t) == { f \in disk : Matches(device_hostname[t], f) }

\* the files task t's cleanup listed that are still there
StillThere(t) == cleanup[t].listed \cap disk

\* C6 as stated: when a cleanup has just ended, at most MAX_BACKUPS files of
\* its pattern are on disk, and a cleanup that found no more than MAX_BACKUPS
\* files selected none.
C6_AtMostCapAfterCleanup ==
    \A t \in Tasks :
        pc[t] = "release" =>
            /\ Cardinality(OnDiskMatching(t)) <= MAX_BACKUPS
            /\ Cardinality(cleanup[t].listed) <= MAX_BACKUPS
                  => cleanup[t].selected = {}

\* C6 as amended: when a cleanup in which no deletion failed has just ended,
\* at most MAX_BACKUPS of the files it listed are still on disk and selecting
\* among them again selects none; a cleanup that listed no more than
\* MAX_BACKUPS files selected and removed none.
C6_AtMostCapOfListed ==
    \A t \in Tasks :
        pc[t] = "release" =>
            /\ cleanup[t].failed = {} =>
                  /\ Cardinality(StillThere(t)) <= MAX_BACKUPS
                  /\ FilesToDelete(SortByMtime(StillThere(t)), MAX_BACKUPS) = <<>>
            /\ Cardinality(cleanup[t].listed) <= MAX_BACKUPS =>
                  /\ cleanup[t].selected = {}
                  /\ cleanup[t].removed = {}

C6_Witness ==
    \E t \in Tasks :
        /\ pc[t] = "release"
        /\ cleanup[t].failed = {}
        /\ cleanup[t].removed # {}
        /\ Cardinality(StillThere(t)) = MAX_BACKUPS

\* C7: of the files of the cleanup's own identity, every one the cleanup kept
\* was captured later (timestamp of its name) than every one it removed.
C7_RemovedAreOldestByCapture ==
    \A t \in Tasks :
        \A r \in cleanup[t].removed, k \in cleanup[t].listed \ cleanup[t].selected :
            (r.id = device_hostname[t] /\ k.id = device_hostname[t])
                => k.ts > r.ts

\* C8: when a deletion has failed in a cleanup that has ended, the error was
\* logged and every other file selected in that cleanup is gone.
C8_OtherSelectedFilesDeleted ==
    \A t \in Tasks :
        (pc[t] = "release" /\ cleanup[t].failed # {}) =>
            /\ "Cleanup failed" \in errors[t]
            /\ \A f \in cleanup[t].selected \ cleanup[t].failed :
                   Named(disk, f) = {}

\* C9: the sessions open at one time never outnumber min(N, 10).
C9_SessionsWithinCeiling ==
    Cardinality(sessions) <= Min(Len(routers), POOL_MAX)

C9_Witness ==
    /\ Cardinality(sessions) = POOL_MAX
    /\ \E t \in Tasks : pc[t] = "queued"

\* C10: at most one summary is handed to the notification sink, and only
\* when every task of a non-empty inventory has been taken; a finished job
\* has sent exactly one when the inventory was non-empty, also when every
\* device failed, and none, with no task started, when it was empty.
C10_OneSummaryPerJob ==
    /\ notifications <= 1
    /\ notifications = 1 =>
          /\ Len(routers) > 0
          /\ \A t \in Tasks : pc[t] = "collected"
    /\ jpc = "done" =>
          notifications = (IF Len(routers) > 0 THEN 1 ELSE 0)
    /\ Len(routers) = 0 => (Busy = {} /\ sessions = {})

C10_Witness ==
    /\ jpc = "done"
    /\ notifications = 1
    /\ success_details = <<>>
    /\ Len(failed_hosts) = MaxDevices


\* C11: a job run that has ended wrote the liveness marker twice, once at its
\* start and once at its end, whatever the inventory was.
C11_MarkerAtStartAndEnd ==
    /\ jpc # "start" => last_run >= 1
    /\ jpc = "done" => last_run = 2


MissingError(list, host) ==
    { i \in DOMAIN list :
        list[i].ip = host /\ list[i].error = "Missing configuration" }

\* C12: a device whose host, username or password resolves to nothing never
\* has a session opened in the job; its task returns the failure "Missing
\* configuration" and is filed under the failures with that error.
C12_MissingConfigurationNoSession ==
    \A t \in Tasks :
        ~Valid(routers[t]) =>
            /\ opens[t] = 0
            /\ t \notin sessions
            /\ pc[t] \in {"queued", "returned", "collected"}
            /\ Returned(t) =>
                  /\ ret[t].state = "returned"
                  /\ ~ret[t].success
                  /\ ret[t].error = "Missing configuration"
            /\ pc[t] = "collected" =>
                  /\ MissingError(failed_hosts, routers[t].host) # {}
                  /\ InList(success_details, routers[t].host) = {}

C12_Witness ==
    /\ jpc = "done"
    /\ Len(routers) = 1
    /\ ~routers[1].username
    /\ ~routers[1].password
    /\ opens[1] = 0
    /\ MissingError(failed_hosts, routers[1].host) # {}


ConfigurationError == Len(routers) = 0 \/ \E t \in Tasks : ~Valid(routers[t])

\* C13 as stated: in a job with a configuration error (no inventory, or an
\* entry without credentials) no session is opened for any device and no
\* summary is dispatched.
C13_ConfigurationErrorFailsJob ==
    ConfigurationError =>
        /\ sessions = {}
        /\ \A t \in Tasks : opens[t] = 0
        /\ notifications = 0

\* C13 as amended: a job without inventory ends straight after the load, with
\* no session and no summary; an entry without credentials fails alone, no
\* session being opened for it, while the job goes on and, once done, has
\* dispatched its one summary.
C13_OnlyMissingInventoryEndsJob ==
    /\ Len(routers) = 0 =>
          /\ jpc \in {"start", "done"}
          /\ sessions = {}
          /\ notifications = 0
    /\ \A t \in Tasks : ~Valid(routers[t]) => (opens[t] = 0 /\ t \notin sessions)
    /\ (jpc = "done" /\ Len(routers) > 0) => notifications = 1

C13_Witness ==
    /\ jpc = "done"
    /\ notifications = 1
    /\ \E t, u \in Tasks :
         /\ ~Valid(routers[t])
         /\ opens[t] = 0
         /\ opens[u] = 1
         /\ InList(success_details, routers[u].host) # {}


\* C14: a task whose configuration read or file write failed returns a
\* failure without running the cleanup, and no cleanup ever lists (counts
\* towards MAX_BACKUPS) a file left incomplete by a failed write.
C14_FailedCaptureNeverCounted ==
    /\ \A t \in Tasks :
         (Valid(routers[t]) /\ routers[t].fate \in {"capture", "write"}) =>
             /\ ~cleanup[t].ran
             /\ ~InSection(t)
             /\ Returned(t) => ~ret[t].success
    /\ \A u \in Tasks : \A f \in cleanup[u].listed : f.complete


\* the files on disk that carry the name task t wrote
OwnFile(t) == { f \in disk : f.id = device_hostname[t] /\ f.ts = timestamp[t] }

\* C15: a task whose commit or file deletion failed leaves the serialized
\* section with its snapshot file on disk, and is reported as a success.
C15_SectionFailureKeepsOutcomeAndFile ==
    \A t \in Tasks :
        errors[t] # {} =>
            /\ pc[t] = "release" => OwnFile(t) # {}
            /\ Returned(t) => (ret[t].state = "returned" /\ ret[t].success)


\* C16: under fair scheduling every job run completes: the job reaches its
\* end with every task taken by the main thread in a terminal state (returned
\* success or failure), no task left waiting for the lock, the lock free and
\* every session closed, whatever the other devices' tasks did.
C16_EveryRunCompletes ==
    <>( /\ jpc = "done"
        /\ GIT_LOCK = 0
        /\ sessions = {}
        /\ \A t \in Tasks :
             /\ pc[t] = "collected"
             /\ ret[t].state = "returned"
             /\ ret[t].success \/ ret[t].error # "none" )

C16_Witness ==
    /\ jpc = "done"
    /\ GIT_LOCK = 0
    /\ \E t \in Tasks, u \in Tasks :
         /\ pc[t] = "collected" /\ ret[t].success /\ cleanup[t].ran
         /\ pc[u] = "collected" /\ ~ret[u].success
         /\ routers[u].fate \in RetryTypes


\* the identity task t resolved, before sanitization
Identity(t) == ResolveHostname(routers[t].reply, routers[t].host)

\* the characters the sanitization is about
SpecialChars == {";", "/", "\\", ":", "*", "?", "\"", "<", ">", "|"}

NotSemicolon(c) == c # ";"

\* C17 as stated: the sanitized identity is as long as the resolved one, has
\* "_" wherever that one has a character of the set, the same character
\* everywhere else, and so holds no character of the set.
C17_EveryListedCharReplaced ==
    \A t \in Tasks :
        pc[t] = "write" =>
            LET in == Identity(t)
                out == device_hostname[t]
            IN  /\ Len(out) = Len(in)
                /\ \A i \in 1..Len(in) :
                     out[i] = IF in[i] \in SpecialChars THEN "_" ELSE in[i]
                /\ \A i \in 1..Len(out) : out[i] \notin SpecialChars

\* C17 as amended: the sanitized identity is the resolved one without its
\* ";" characters, with "_" wherever what is left has another character of
\* the set and the same character everywhere else; it holds no character of
\* the set and is shorter than the resolved one by the number of ";" in it.
C17_SemicolonDroppedOthersReplaced ==
    \A t \in Tasks :
        pc[t] = "write" =>
            LET in == SelectSeq(Identity(t), NotSemicolon)
                out == device_hostname[t]
            IN  /\ Len(out) = Len(in)
                /\ \A i \in 1..Len(in) :
                     out[i] = IF in[i] \in SpecialChars THEN "_" ELSE in[i]
                /\ \A i \in 1..Len(out) : out[i] \notin SpecialChars
                /\ Len(out) = Len(Identity(t))
                     - Cardinality({ i \in 1..Len(Identity(t)) : Identity(t)[i] = ";" })

C17_Witness ==
    \E t \in Tasks :
        /\ pc[t] = "write"
        /\ routers[t].reply = <<";", "|">>
        /\ device_hostname[t] = <<"_">>

\* C18: sanitizing a sanitized identity again yields the same string.
C18_SanitizeIdempotent ==
    \A t \in Tasks :
        pc[t] = "write" => Sanitize(device_hostname[t]) = device_hostname[t]

C18_Witness ==
    \E t \in Tasks :
        /\ pc[t] = "write"
        /\ routers[t].reply = <<"/", "\\">>
        /\ device_hostname[t] = <<"_", "_">>
        /\ Sanitize(device_hostname[t]) = <<"_", "_">>


\* C19: a cleanup for one sanitized identity lists (counts towards the cap)
\* and removes files of that identity only, also when another identity
\* begins with this one followed by "_".
C19_CleanupScopedToIdentity ==
    \A t \in Tasks :
        /\ \A f \in cleanup[t].listed : f.id = device_hostname[t]
        /\ \A f \in cleanup[t].removed : f.id = device_hostname[t]


\* C20: two tasks that both return success wrote files of different names,
\* and no task writes under the name of a file an earlier job left.
C20_OwnFilePerSuccess ==
    /\ \A t \in Tasks, u \in Tasks :
         (t # u /\ Returned(t) /\ Returned(u) /\ ret[t].success /\ ret[u].success)
             => <<ret[t].hostname, ret[t].timestamp>>
                  # <<ret[u].hostname, ret[u].timestamp>>
    /\ \A t \in Tasks :
         (Returned(t) /\ ret[t].success) => ret[t].timestamp >= StartClock


\* the sanitized identities for which some task of the job returned success
SucceededIdentities ==
    { ret[t].hostname : t \in { u \in Tasks : Returned(u) /\ ret[u].success } }

\* the files on disk named {id}_{timestamp}.conf
FilesOf(id) == { f \in disk : f.id = id }

\* C21: when the job has completed with every task settled and no file
\* deletion errored, every identity for which some task succeeded has at most
\* MAX_BACKUPS (a positive cap) snapshot files on disk, whatever the order of
\* the tasks' file writes and serialized sections was.
C21_AtMostCapWhenJobDone ==
    ( /\ jpc = "done"
      /\ \A t \in Tasks : pc[t] = "collected"
      /\ MAX_BACKUPS > 0
      /\ \A t \in Tasks : cleanup[t].failed = {} )
        => \A id \in SucceededIdentities :
               Cardinality(FilesOf(id)) <= MAX_BACKUPS

====
